---- MODULE Spec2Model ----
(***************************************************************************)
(* Model of fake-factors/calculate_fake_factors.py: the composition        *)
(* fraction engine (determine_fractions), the per-file augmentation worker *)
(* (apply_fake_factors) and the job dispatcher (main).                     *)
(*                                                                         *)
(* Bin contents are held as exact rationals <<numerator, denominator>>     *)
(* with a positive denominator and in lowest terms.                        *)
(***************************************************************************)
EXTENDS Integers, Sequences, FiniteSets, TLC

VARIABLES
  hist_file,    \* the template store: key <<channel, category, process>> -> histogram
  key_order,    \* the iteration order of composition[channel].keys()
  categories_arg, \* the categories argument of determine_fractions
  fractions,    \* what determine_fractions returned (channel -> category -> group -> histogram)
  frac_log,     \* the records determine_fractions handed to the logger
  stages,       \* subsubdict of every category as it stood after line 147 and after line 151
  pc,           \* position of the run
  datafile,     \* the path of the file a task works on
  input_tree,   \* the events of the (joined) input table, in order
  ff,           \* the fake factor function loaded from the channel's archive
  wpc,          \* position of the task in apply_fake_factors
  entry,        \* number of events the loop has taken from input_tree
  output_buffer,\* the branch buffers (buffer key -> value)
  output_tree,  \* the rows filled into the output table
  written,      \* whether output_tree.Write() was executed
  printed,      \* what the task printed
  evals,        \* per event and leg: the category, bin and feature vector used
  handles,      \* the file handles the task holds open
  out_dirs,     \* the subdirectories that exist under the output directory
  out_files,    \* the files that exist under the output directory
  config_keys,  \* whether fake-factors/config.yaml holds the key args.config
  listing,      \* os.listdir(args.directory), in the order it yields the entries
  primary_files,\* the entries e whose file e/e.root exists under args.directory
  friend_files, \* channel -> the entries e whose file e/e.root exists under the channel's friend directory
  out_root,     \* the output directory: "absent", "preexisting" or "created"
  scan,         \* number of entries of the listing main has looked at
  datafiles,    \* the paths main collected
  num_threads,  \* args.num_threads
  tasks,        \* the tasks the pool holds: the path and how far the task got
  error         \* what made main raise ("" when it did not)

mvars == <<config_keys, listing, primary_files, friend_files, out_root, scan, datafiles,
           num_threads, tasks, error>>
fvars == <<hist_file, key_order, categories_arg, fractions, frac_log, stages, pc>>
wvars == <<datafile, input_tree, ff, wpc, entry, output_buffer, output_tree, written,
           printed, evals, handles, out_dirs, out_files>>
vars == <<fvars, wvars, mvars>>

\* Number of regular bins of every template histogram (bins 0 and NbinsX+1
\* are the underflow and the overflow bin).
NbinsX == 2

Bins == 0..(NbinsX + 1)

(***************************************************************************)
(* Exact rationals.                                                        *)
(***************************************************************************)
Abs(x) == IF x < 0 THEN -x ELSE x

RECURSIVE GCD(_, _)
GCD(a, b) == IF b = 0 THEN a ELSE GCD(b, a % b)

Rat(n, d) ==
  LET g == GCD(Abs(n), Abs(d))
      s == IF d < 0 THEN -1 ELSE 1
  IN  <<(s * n) \div g, (s * d) \div g>>

RatInt(n) == <<n, 1>>
RatZero == <<0, 1>>
RatOne == <<1, 1>>
RatAdd(a, b) == Rat(a[1] * b[2] + b[1] * a[2], a[2] * b[2])
RatSub(a, b) == Rat(a[1] * b[2] - b[1] * a[2], a[2] * b[2])
RatMul(a, b) == Rat(a[1] * b[1], a[2] * b[2])
\* only used with b # 0
RatDiv(a, b) == Rat(a[1] * b[2], a[2] * b[1])
RatLt(a, b) == a[1] * b[2] < b[1] * a[2]
RatIsZero(a) == a[1] = 0

(***************************************************************************)
(* Histogram operations of the template library, as the code uses them.    *)
(***************************************************************************)
\* TH1.Reset: every bin content becomes 0, the binning is kept.
Reset(h) == [b \in DOMAIN h |-> RatZero]

\* TH1.Add(g, c): this = this + c * g, bin by bin.
Add(h, g, c) == [b \in DOMAIN h |-> RatAdd(h[b], RatMul(c, g[b]))]

\* TH1.Divide(den): this = this / den bin by bin; a bin whose divisor is 0
\* gets content 0.
Divide(h, den) ==
  [b \in DOMAIN h |-> IF RatIsZero(den[b]) THEN RatZero ELSE RatDiv(h[b], den[b])]

GetBinContent(h, i) == h[i]
SetBinContent(h, i, v) == [h EXCEPT ![i] = v]
GetNbinsX(h) == Cardinality(DOMAIN h) - 2

(***************************************************************************)
(* determine_fractions                                                     *)
(***************************************************************************)
composition ==
  [mt |-> [data |-> <<"data_obs">>, W |-> <<"W", "VVJ", "ZJ">>, TT |-> <<"TTJ">>,
           QCD |-> <<"QCD">>, real |-> <<"ZTT", "ZL", "TTT", "VVT">>],
   et |-> [data |-> <<"data_obs">>, W |-> <<"W", "VVJ", "ZJ">>, TT |-> <<"TTJ">>,
           QCD |-> <<"QCD">>, real |-> <<"ZTT", "ZL", "TTT", "VVT">>],
   tt |-> [data |-> <<"data_obs">>, W |-> <<"W", "VVJ">>, TT |-> <<"TTJ">>,
           QCD |-> <<"QCD">>, DY |-> <<"ZJ">>, real |-> <<"ZTT", "ZL", "TTT", "VVT">>]]

\* the category lists main passes to determine_fractions and to every task
categories ==
  [et |-> <<"ggh", "qqh", "ztt", "zll", "w", "tt", "ss", "misc">>,
   mt |-> <<"ggh", "qqh", "ztt", "zll", "w", "tt", "ss", "misc">>,
   tt |-> <<"tt1_ggh", "tt1_qqh", "tt1_ztt", "tt1_noniso", "tt1_misc",
            "tt2_ggh", "tt2_qqh", "tt2_ztt", "tt2_noniso", "tt2_misc">>]

Channels == DOMAIN categories

Range(s) == {s[i] : i \in DOMAIN s}

RECURSIVE SelectSeq2(_, _)
SelectSeq2(s, S) ==
  IF s = <<>> THEN <<>>
  ELSE IF Head(s) \in S THEN <<Head(s)>> \o SelectSeq2(Tail(s), S)
  ELSE SelectSeq2(Tail(s), S)

\* composition[channel].keys(), in the order the dictionary yields them
Keys(order, channel) == SelectSeq2(order, DOMAIN composition[channel])

\* what stands for the null object Get yields for a key the file lacks
NullObject == [b \in Bins |-> RatZero]

\* hist_file.Get("#ch#ch_cat#proc#smhtt#Run<era>#<expr>#125#")
Get(file, channel, category, process) ==
  IF <<channel, category, process>> \in DOMAIN file
  THEN file[<<channel, category, process>>]
  ELSE NullObject

\* lines 121-130: one reset clone of the data_obs template per group
ResetClones(file, keys, channel, category) ==
  [f \in Range(keys) |-> Reset(Get(file, channel, category, "data_obs"))]

\* lines 134-143: add the template of every constituent process
RECURSIVE AddProcesses(_, _, _, _, _)
AddProcesses(file, channel, category, procs, h) ==
  IF procs = <<>> THEN h
  ELSE AddProcesses(file, channel, category, Tail(procs),
                    Add(h, Get(file, channel, category, Head(procs)), RatOne))

QCDSign_Plus(fraction) == RatInt(1)

\* the sign with which a finished group enters the QCD histogram (lines 144-147)
QCDSign(fraction) == IF fraction = "data" THEN RatInt(1) ELSE RatInt(-1)

\* lines 131-147
RECURSIVE SumLoop(_, _, _, _, _)
SumLoop(file, channel, category, keys, sub) ==
  IF keys = <<>> THEN sub
  ELSE LET fraction == Head(keys) IN
       IF fraction = "QCD" THEN SumLoop(file, channel, category, Tail(keys), sub)
       ELSE LET summed == AddProcesses(file, channel, category,
                                       composition[channel][fraction], sub[fraction])
                s1 == [sub EXCEPT ![fraction] = summed]
                s2 == [s1 EXCEPT !["QCD"] = Add(s1["QCD"], summed, QCDSign(fraction))]
            IN  SumLoop(file, channel, category, Tail(keys), s2)

\* lines 148-151: normalize to data
DivideLoop(keys, sub) ==
  LET denominator_hist == sub["data"]
  IN  [f \in DOMAIN sub |-> Divide(sub[f], denominator_hist)]

Rescale_NoDivide(h, i, qcd_fraction) == h

Rescale_WholeHistogram(h, i, qcd_fraction) ==
  [b \in DOMAIN h |-> RatDiv(h[b], RatSub(RatOne, qcd_fraction))]

\* line 160 for one group
Rescale(h, i, qcd_fraction) ==
  SetBinContent(h, i, RatDiv(GetBinContent(h, i), RatSub(RatOne, qcd_fraction)))

\* lines 158-161: rescale every group but data at bin i
RECURSIVE RescaleLoop(_, _, _, _)
RescaleLoop(keys, st, i, qcd_fraction) ==
  IF keys = <<>> THEN st
  ELSE LET fraction == Head(keys) IN
       IF fraction = "data" THEN RescaleLoop(Tail(keys), st, i, qcd_fraction)
       ELSE LET h == Rescale(st.sub[fraction], i, qcd_fraction)
            IN  RescaleLoop(Tail(keys),
                  [sub |-> [st.sub EXCEPT ![fraction] = h],
                   log |-> Append(st.log, [level |-> "debug", fraction |-> fraction,
                                           value |-> GetBinContent(h, i)])],
                  i, qcd_fraction)

IsNegative_Never(qcd_fraction) == FALSE

\* line 155: the test that starts the correction of a bin
IsNegative(qcd_fraction) == RatLt(qcd_fraction, RatZero)

\* lines 153-161: the sanity check of bins i .. GetNbinsX()+1
RECURSIVE SanityLoop(_, _, _, _, _)
SanityLoop(keys, channel, category, st, i) ==
  IF i >= GetNbinsX(st.sub["QCD"]) + 2 THEN st
  ELSE LET qcd_fraction == GetBinContent(st.sub["QCD"], i) IN
       IF IsNegative(qcd_fraction)
       THEN LET zeroed == [sub |-> [st.sub EXCEPT !["QCD"] = SetBinContent(@, i, RatZero)],
                           log |-> Append(st.log, [level |-> "info", channel |-> channel,
                                                   category |-> category, index |-> i])]
            IN  SanityLoop(keys, channel, category,
                           RescaleLoop(keys, zeroed, i, qcd_fraction), i + 1)
       ELSE SanityLoop(keys, channel, category, st, i + 1)

\* lines 120-162: the body of the category loop
CategoryFractions(file, order, channel, category) ==
  LET keys == Keys(order, channel)
      summed == SumLoop(file, channel, category, keys,
                        ResetClones(file, keys, channel, category))
      divided == DivideLoop(keys, summed)
  IN  SanityLoop(keys, channel, category, [sub |-> divided, log |-> <<>>], 0)

RECURSIVE ConcatLogs(_, _, _, _)
ConcatLogs(file, order, channel, cats) ==
  IF cats = <<>> THEN <<>>
  ELSE CategoryFractions(file, order, channel, Head(cats)).log
       \o ConcatLogs(file, order, channel, Tail(cats))

\* the order in which categories.keys() yields the channels
ChannelOrder == <<"et", "mt", "tt">>

RECURSIVE ChannelLogs(_, _, _, _)
ChannelLogs(file, order, cats, chs) ==
  IF chs = <<>> THEN <<>>
  ELSE ConcatLogs(file, order, Head(chs), cats[Head(chs)])
       \o ChannelLogs(file, order, cats, Tail(chs))

\* lines 90-165
determine_fractions(file, order, cats) ==
  [fractions |->
     [channel \in DOMAIN cats |->
        [category \in Range(cats[channel]) |->
           CategoryFractions(file, order, channel, category).sub]],
   log |-> ChannelLogs(file, order, cats, SelectSeq2(ChannelOrder, DOMAIN cats))]

\* subsubdict of every category after the loop of lines 131-147
Summed(file, order, cats) ==
  [channel \in DOMAIN cats |->
     [category \in Range(cats[channel]) |->
        SumLoop(file, channel, category, Keys(order, channel),
                ResetClones(file, Keys(order, channel), channel, category))]]

\* subsubdict of every category after the loop of lines 150-151
Divided(file, order, cats) ==
  [channel \in DOMAIN cats |->
     [category \in Range(cats[channel]) |->
        DivideLoop(Keys(order, channel), Summed(file, order, cats)[channel][category])]]

\* the processes whose templates determine_fractions asks the file for:
\* data_obs (lines 123-129) and the constituents of every group but QCD (lines 132-143)
ProcessesRead(channel) ==
  {"data_obs"} \cup UNION {Range(composition[channel][f]) : f \in DOMAIN composition[channel] \ {"QCD"}}

KeysRead(cats) ==
  UNION {{<<ch, cat, proc>> : cat \in Range(cats[ch]), proc \in ProcessesRead(ch)} : ch \in DOMAIN cats}

Readable_DataOnly(file, cats) ==
  \A ch \in DOMAIN cats : \A cat \in Range(cats[ch]) : <<ch, cat, "data_obs">> \in DOMAIN file

\* Get yields a null object for a key the file lacks, and for every key of a
\* file that could not be opened; Reset (line 130) and Add (line 135) raise on it
Readable(file, cats) == KeysRead(cats) \subseteq DOMAIN file

(***************************************************************************)
(* The template stores and iteration orders the checks draw from.          *)
(***************************************************************************)
Processes == UNION {Range(composition[ch][f]) : ch \in Channels, f \in {"data", "W", "TT", "QCD", "real"}}

\* the keys of the templates of the categories in cats
StoreKeys(cats) ==
  UNION {{<<ch, cat, proc>> : cat \in Range(cats[ch]), proc \in Processes} : ch \in DOMAIN cats}

CatPos(channel, category) ==
  IF category \in Range(categories[channel])
  THEN CHOOSE i \in DOMAIN categories[channel] : categories[channel][i] = category
  ELSE 1

\* the histogram h with its contents moved k bins down (cyclically)
ShiftBins(h, k) == [b \in Bins |-> RatInt(h[(b + k) % (NbinsX + 2)])]

DataInner == [b \in Bins |-> IF b \in {0, NbinsX + 1} THEN 0 ELSE 10]
DataFlat == [b \in Bins |-> 10]
DataHists == {DataInner, DataFlat}

McPeak == [b \in Bins |-> IF b = 0 THEN 0 ELSE IF b = 1 THEN 12 ELSE 4]
McDip == [b \in Bins |-> IF b = 1 THEN 0 - 1 ELSE 3]
McTail == [b \in Bins |-> IF b = NbinsX + 1 THEN 0 ELSE 5]
McHists == {McPeak, McDip, McTail}

McNone == [b \in Bins |-> 0]
McOnes == [b \in Bins |-> 1]
RestHists == {McNone, McOnes}

\* A store: data_obs holds d, process p holds h, every other process holds r;
\* the category at position k of its list holds these contents shifted by k-1 bins.
MakeStore(cats, d, p, h, r) ==
  [key \in StoreKeys(cats) |->
     ShiftBins(IF key[3] = "data_obs" THEN d ELSE IF key[3] = p THEN h ELSE r,
               CatPos(key[1], key[2]) - 1)]

StoreSet(cats) ==
  {MakeStore(cats, d, p, h, r) : d \in DataHists, p \in Processes \ {"data_obs"},
                                 h \in McHists, r \in RestHists}

\* Number of categories in the categories argument a check of
\* determine_fractions alone draws.
MaxCats == 2

\* one channel with the first MaxCats categories of its list
CatArgs == {[ch \in {c} |-> SubSeq(categories[c], 1, MaxCats)] : c \in Channels}

KeyOrders ==
  {<<"data", "W", "TT", "QCD", "DY", "real">>,
   <<"real", "DY", "QCD", "TT", "W", "data">>,
   <<"QCD", "W", "data", "real", "TT", "DY">>}

NoFractions == [channel \in {} |-> 0]
NoStages == [summed |-> NoFractions, divided |-> NoFractions]

\* no task exists
WorkerIdle ==
  /\ datafile = <<>>
  /\ input_tree = <<>>
  /\ ff = [nom |-> 0, sys |-> 0, stride |-> 0]
  /\ wpc = "none"
  /\ entry = 0
  /\ output_buffer = <<>>
  /\ output_tree = <<>>
  /\ written = FALSE
  /\ printed = <<>>
  /\ evals = <<>>
  /\ handles = {}
  /\ out_dirs = {}
  /\ out_files = {}

\* main is not part of the run
MainIdle ==
  /\ config_keys = TRUE
  /\ listing = <<>>
  /\ primary_files = {}
  /\ friend_files = [ch \in Channels |-> {}]
  /\ out_root = "absent"
  /\ scan = 0
  /\ datafiles = <<>>
  /\ num_threads = 1
  /\ tasks = <<>>
  /\ error = ""

(***************************************************************************)
(* determine_fractions applied to a drawn store.                           *)
(***************************************************************************)
InitFractions ==
  /\ categories_arg \in CatArgs
  /\ hist_file \in StoreSet(categories_arg)
  /\ key_order \in KeyOrders
  /\ fractions = NoFractions
  /\ frac_log = <<>>
  /\ stages = NoStages
  /\ pc = "start"
  /\ WorkerIdle
  /\ MainIdle

\* line 321: fractions = determine_fractions(args, categories)
DetermineFractions ==
  /\ pc = "start"
  /\ IF Readable(hist_file, categories_arg)
     THEN /\ LET r == determine_fractions(hist_file, key_order, categories_arg)
             IN  /\ fractions' = r.fractions
                 /\ frac_log' = r.log
          /\ stages' = [summed |-> Summed(hist_file, key_order, categories_arg),
                        divided |-> Divided(hist_file, key_order, categories_arg)]
          /\ pc' = "fractions_done"
          /\ error' = error
     ELSE /\ pc' = "aborted"
          /\ error' = "histogram"
          /\ UNCHANGED <<fractions, frac_log, stages>>
  /\ UNCHANGED <<hist_file, key_order, categories_arg>>
  /\ UNCHANGED wvars
  /\ UNCHANGED <<config_keys, listing, primary_files, friend_files, out_root, scan, datafiles,
                 num_threads, tasks>>

NextFractions == DetermineFractions

SpecFractions == InitFractions /\ [][NextFractions]_vars

(***************************************************************************)
(* Properties of determine_fractions.                                      *)
(***************************************************************************)
\* the groups of a channel other than data
NonDataGroups(channel) == DOMAIN composition[channel] \ {"data"}

RECURSIVE RatSum(_, _)
RatSum(f, S) ==
  IF S = {} THEN RatZero
  ELSE LET x == CHOOSE y \in S : TRUE IN RatAdd(f[x], RatSum(f, S \ {x}))

\* the sum of the fractions of all non-data groups at bin b
FractionSum(channel, category, b) ==
  RatSum([g \in NonDataGroups(channel) |-> fractions[channel][category][g][b]],
         NonDataGroups(channel))

\* the template content of a whole group at bin b, read off the store
GroupContent(channel, category, g, b) ==
  RatSum([p \in Range(composition[channel][g]) |-> hist_file[<<channel, category, p>>][b]],
         Range(composition[channel][g]))

AllBins(P(_, _, _)) ==
  \A channel \in DOMAIN fractions : \A category \in DOMAIN fractions[channel] :
    \A b \in Bins : P(channel, category, b)

\* C1: after determine_fractions returns, the fractions of all non-data
\* groups sum to exactly 1 at every bin of every category of every channel,
\* bins whose data content is 0 included.
C1_SumToOne ==
  pc = "fractions_done" =>
    AllBins(LAMBDA channel, category, b : FractionSum(channel, category, b) = RatOne)

\* C2: after determine_fractions returns, no stored fraction of any group
\* (data excluded or not) is negative at any bin.
C2_NonNegative ==
  pc = "fractions_done" =>
    AllBins(LAMBDA channel, category, b :
              \A g \in DOMAIN composition[channel] :
                ~RatLt(fractions[channel][category][g][b], RatZero))

\* the case of C3: data holds 10 in bins 1 and 2, one group other than QCD
\* and data holds 12 and 4 there, and no other such group holds anything
C3_Case(channel, category, g) ==
  /\ g \in NonDataGroups(channel) \ {"QCD"}
  /\ GroupContent(channel, category, "data", 1) = RatInt(10)
  /\ GroupContent(channel, category, "data", 2) = RatInt(10)
  /\ GroupContent(channel, category, g, 1) = RatInt(12)
  /\ GroupContent(channel, category, g, 2) = RatInt(4)
  /\ \A o \in NonDataGroups(channel) \ {"QCD", g} :
       /\ GroupContent(channel, category, o, 1) = RatZero
       /\ GroupContent(channel, category, o, 2) = RatZero

\* C3: for data bins [10, 10] and a single other contribution [12, 4],
\* bin 1 holds QCD = 0 and other = 1, bin 2 holds QCD = 6/10 and
\* other = 4/10, and both bins sum to 1.
C3_Example ==
  pc = "fractions_done" =>
    \A channel \in DOMAIN fractions : \A category \in DOMAIN fractions[channel] :
      \A g \in NonDataGroups(channel) :
        C3_Case(channel, category, g) =>
          LET fr == fractions[channel][category] IN
          /\ fr["QCD"][1] = RatZero
          /\ fr[g][1] = RatOne
          /\ fr["QCD"][2] = Rat(6, 10)
          /\ fr[g][2] = Rat(4, 10)
          /\ FractionSum(channel, category, 1) = RatOne
          /\ FractionSum(channel, category, 2) = RatOne

C3_Witness ==
  /\ pc = "fractions_done"
  /\ \E channel \in DOMAIN fractions : \E category \in DOMAIN fractions[channel] :
       \E g \in NonDataGroups(channel) :
         /\ C3_Case(channel, category, g)
         /\ fractions[channel][category][g][1] = RatOne
         /\ fractions[channel][category]["QCD"][2] = Rat(6, 10)

(***************************************************************************)
(* File names.  A name is the sequence of its parts, and "s in name" is    *)
(* the search for the parts of s, contiguous, in the parts of the name.    *)
(***************************************************************************)
In(sub, name) ==
  \E i \in 1..(Len(name) - Len(sub) + 1) : SubSeq(name, i, i + Len(sub) - 1) = sub

SingleElectronRun == <<"Single", "Electron", "_", "Run", "2016", "B">>
SingleMuonRun == <<"Single", "Muon", "_", "Run", "2016", "B">>
TauRun == <<"Tau", "_", "Run", "2016", "B">>

PathOf_SharedDir(e) == <<"data", "/">> \o e \o <<".root">>

\* os.path.join(entry, "%s.root" % entry)
PathOf(e) == e \o <<"/">> \o e \o <<".root">>

\* os.path.dirname(datafile)
Dirname(path) ==
  IF \E i \in DOMAIN path : path[i] = "/"
  THEN SubSeq(path, 1, (CHOOSE i \in DOMAIN path :
                          path[i] = "/" /\ \A j \in DOMAIN path : path[j] = "/" => j <= i) - 1)
  ELSE <<>>

(***************************************************************************)
(* apply_fake_factors                                                      *)
(***************************************************************************)
unc_shifts ==
  [et |-> <<"ff_qcd_syst", "ff_qcd_dm0_njet0_stat", "ff_qcd_dm0_njet1_stat",
            "ff_qcd_dm1_njet0_stat", "ff_qcd_dm1_njet1_stat", "ff_w_syst",
            "ff_w_dm0_njet0_stat", "ff_w_dm0_njet1_stat",
            "ff_w_dm1_njet0_stat", "ff_w_dm1_njet1_stat", "ff_tt_syst",
            "ff_tt_dm0_njet0_stat", "ff_tt_dm0_njet1_stat",
            "ff_tt_dm1_njet0_stat", "ff_tt_dm1_njet1_stat">>,
   mt |-> <<"ff_qcd_syst", "ff_qcd_dm0_njet0_stat", "ff_qcd_dm0_njet1_stat",
            "ff_qcd_dm1_njet0_stat", "ff_qcd_dm1_njet1_stat", "ff_w_syst",
            "ff_w_dm0_njet0_stat", "ff_w_dm0_njet1_stat",
            "ff_w_dm1_njet0_stat", "ff_w_dm1_njet1_stat", "ff_tt_syst",
            "ff_tt_dm0_njet0_stat", "ff_tt_dm0_njet1_stat",
            "ff_tt_dm1_njet0_stat", "ff_tt_dm1_njet1_stat">>,
   tt |-> <<"ff_qcd_syst", "ff_qcd_dm0_njet0_stat", "ff_qcd_dm0_njet1_stat",
            "ff_qcd_dm1_njet0_stat", "ff_qcd_dm1_njet1_stat", "ff_w_syst",
            "ff_tt_syst", "ff_w_frac_syst", "ff_tt_frac_syst",
            "ff_dy_frac_syst">>]

suffix_LegTwoOnly == [et |-> <<2>>, mt |-> <<2>>, tt |-> <<2>>]

\* one fake factor per tau is needed
suffix == [et |-> <<2>>, mt |-> <<2>>, tt |-> <<1, 2>>]

shifts == <<"up", "down">>

\* "%i" % x
IntStr(x) == IF x = 1 THEN "1" ELSE "2"

\* "Tau" looked for first
DetermineChannel_TauFirst(file) ==
  IF In(<<"Tau">>, file) THEN "tt"
  ELSE IF In(<<"Single", "Electron">>, file) THEN "et"
  ELSE "mt"

\* lines 199-205
DetermineChannel(file) ==
  IF In(<<"Single", "Electron">>, file) THEN "et"
  ELSE IF In(<<"Single", "Muon">>, file) THEN "mt"
  ELSE "tt"

\* the keys of output_buffer: "nom_%i" and "%s_%s_%i"
NomKey(x) == "nom_" \o IntStr(x)
SystKey(syst, shift, x) == syst \o "_" \o shift \o "_" \o IntStr(x)

\* the branch names: "ff%i_nom" and "ff%i_%s_%s"
NomBranch(x) == "ff" \o IntStr(x) \o "_nom"
SystBranch(x, syst, shift) == "ff" \o IntStr(x) \o "_" \o syst \o "_" \o shift

\* the (systematic, shift) pairs in the order of the loops of lines 241-242 and 281-282
RECURSIVE SystShiftPairs(_)
SystShiftPairs(systs) ==
  IF systs = <<>> THEN <<>>
  ELSE <<<<Head(systs), shifts[1]>>, <<Head(systs), shifts[2]>>>> \o SystShiftPairs(Tail(systs))

\* a double: a number, or not a number
Num(n) == [nan |-> FALSE, v |-> n]
NaN == [nan |-> TRUE, v |-> 0]

\* lines 236-248: the buffers, one zero each, and the branch bound to each
RECURSIVE BookLeg(_, _, _)
BookLeg(pairs, x, book) ==
  IF pairs = <<>> THEN book
  ELSE LET syst == Head(pairs)[1]
           shift == Head(pairs)[2]
       IN  BookLeg(Tail(pairs), x,
             [buffer |-> (SystKey(syst, shift, x) :> Num(0)) @@ book.buffer,
              branches |-> (SystBranch(x, syst, shift) :> SystKey(syst, shift, x))
                           @@ book.branches])

RECURSIVE BookLegs(_, _, _)
BookLegs(channel, legs, book) ==
  IF legs = <<>> THEN book
  ELSE LET x == Head(legs)
           nom == [buffer |-> (NomKey(x) :> Num(0)) @@ book.buffer,
                   branches |-> (NomBranch(x) :> NomKey(x)) @@ book.branches]
       IN  BookLegs(channel, Tail(legs), BookLeg(SystShiftPairs(unc_shifts[channel]), x, nom))

Books ==
  [channel \in Channels |->
     BookLegs(channel, suffix[channel], [buffer |-> <<>>, branches |-> <<>>])]

Book(channel) == Books[channel]

\* the pairs of a channel
Pairs == [channel \in Channels |-> SystShiftPairs(unc_shifts[channel])]

\* output_tree.Fill(): one row holding the current content of the buffer of every branch
Fill(tree, branches, buffer) ==
  Append(tree, [br \in DOMAIN branches |-> buffer[branches[br]]])

\* a list that rejects every negative index
ListIndex_NoWrap(n, idx) == IF 0 <= idx /\ idx < n THEN idx + 1 ELSE 0

\* categories[channel][idx]: a list subscript; position 0 stands for IndexError
ListIndex(n, idx) ==
  IF 0 <= idx /\ idx < n THEN idx + 1
  ELSE IF 0 - n <= idx /\ idx < 0 THEN n + idx + 1
  ELSE 0

\* lines 255-257: int(max_index + (0.5 * len(categories[channel]) if tt and x == 2 else 0.0));
\* the index is integral and the tt list has even length
CategoryIndex(channel, x, max_index) ==
  max_index + (IF channel = "tt" /\ x = 2 THEN Len(categories[channel]) \div 2 ELSE 0)

\* values outside the axis put into the first and the last bin of the axis
FindBin_ClampsToAxis(h, value) ==
  IF value < 0 THEN 1
  ELSE IF value >= GetNbinsX(h) THEN GetNbinsX(h)
  ELSE value + 1

\* TAxis.FindBin on NbinsX bins of width 1 from 0: underflow below the first
\* edge, overflow from the last edge on
FindBin(h, value) ==
  IF value < 0 THEN 0
  ELSE IF value >= GetNbinsX(h) THEN GetNbinsX(h) + 1
  ELSE value + 1

\* the tt vector built from leg 1 whichever leg is processed
Inputs_LegOneFirst(channel, event, x, cat_fractions, bin_index) ==
  IF channel = "tt"
  THEN <<RatInt(event.pt_1), RatInt(event.pt_2), RatInt(event.decayMode_1),
         RatInt(event.njets), RatInt(event.m_vis),
         GetBinContent(cat_fractions["QCD"], bin_index),
         GetBinContent(cat_fractions["W"], bin_index),
         GetBinContent(cat_fractions["TT"], bin_index),
         GetBinContent(cat_fractions["DY"], bin_index)>>
  ELSE <<RatInt(event.pt_2), RatInt(event.decayMode_2), RatInt(event.njets),
         RatInt(event.m_vis), RatInt(event.mt_1), RatInt(event.iso_1),
         GetBinContent(cat_fractions["QCD"], bin_index),
         GetBinContent(cat_fractions["W"], bin_index),
         GetBinContent(cat_fractions["TT"], bin_index)>>

\* lines 259-276
Inputs(channel, event, x, cat_fractions, bin_index) ==
  IF channel = "tt"
  THEN <<RatInt(IF x = 1 THEN event.pt_1 ELSE event.pt_2),
         RatInt(IF 3 - x = 1 THEN event.pt_1 ELSE event.pt_2),
         RatInt(IF x = 1 THEN event.decayMode_1 ELSE event.decayMode_2),
         RatInt(event.njets), RatInt(event.m_vis),
         GetBinContent(cat_fractions["QCD"], bin_index),
         GetBinContent(cat_fractions["W"], bin_index),
         GetBinContent(cat_fractions["TT"], bin_index),
         GetBinContent(cat_fractions["DY"], bin_index)>>
  ELSE <<RatInt(event.pt_2), RatInt(event.decayMode_2), RatInt(event.njets),
         RatInt(event.m_vis), RatInt(event.mt_1), RatInt(event.iso_1),
         GetBinContent(cat_fractions["QCD"], bin_index),
         GetBinContent(cat_fractions["W"], bin_index),
         GetBinContent(cat_fractions["TT"], bin_index)>>

(***************************************************************************)
(* The fake factor function is loaded from an archive; the checks draw it  *)
(* from a family of functions of the feature vector and the shift name     *)
(* that return values below, inside, on the edges of and above [0, 999],   *)
(* and not-a-number.  A function f of the family returns, for the nominal  *)
(* value, the entry f.nom + code(inputs) of RawValues and, for a shift,    *)
(* the entry f.sys + code(inputs) + f.stride * code(shift), counted        *)
(* cyclically.                                                             *)
(***************************************************************************)
RawValues == <<Num(0 - 1), Num(0), Num(7), Num(500), Num(999), Num(1000), Num(1500), NaN>>

AllSysts ==
  unc_shifts["et"] \o <<"ff_w_frac_syst", "ff_tt_frac_syst", "ff_dy_frac_syst">>

ShiftName(syst, shift) == syst \o "_" \o shift

\* 0 for the nominal value (no shift name), 1, 2, ... for the shift names
ShiftCodes ==
  [name \in {ShiftName(AllSysts[i], shifts[j]) : i \in DOMAIN AllSysts, j \in DOMAIN shifts}
     |-> CHOOSE c \in 1..(2 * Len(AllSysts)) :
           name = ShiftName(AllSysts[(c + 1) \div 2], shifts[2 - (c % 2)])]

ShiftCode(name) == IF name = "" THEN 0 ELSE ShiftCodes[name]

RECURSIVE InputsCode(_)
InputsCode(inputs) ==
  IF inputs = <<>> THEN 0
  ELSE Abs(Head(inputs)[1]) + Head(inputs)[2] + 3 * InputsCode(Tail(inputs))

\* ff.value(len(inputs), array('d', inputs)[, name]) of the function f
ff_value(f, inputs, name) ==
  LET start == IF name = "" THEN f.nom ELSE f.sys + f.stride * ShiftCode(name)
  IN  RawValues[((start + InputsCode(inputs)) % Len(RawValues)) + 1]

FFSet ==
  {[nom |-> 0, sys |-> 0, stride |-> 3], [nom |-> 3, sys |-> 6, stride |-> 3],
   [nom |-> 5, sys |-> 1, stride |-> 0], [nom |-> 2, sys |-> 6, stride |-> 0]}

\* lines 279 and 286: the value is kept
InRange(value) == ~value.nan /\ value.v >= 0 /\ value.v <= 999

\* a comparison chain that keeps not-a-number
Clamp_KeepsNaN(value) == IF value.v < 0 \/ value.v > 999 THEN Num(0) ELSE value

\* lines 279-280 and 286, 291: what stays in the buffer
Clamp(value) == IF InRange(value) THEN value ELSE Num(0)

\* a nominal value outside the range leaves the buffer as the last event set it
Nominal_KeepsStale(f, inputs, x, st) ==
  IF InRange(ff_value(f, inputs, ""))
  THEN [st EXCEPT !.buffer = [@ EXCEPT ![NomKey(x)] = ff_value(f, inputs, "")]]
  ELSE st

\* lines 277-280
Nominal(f, inputs, x, st) ==
  [st EXCEPT !.buffer = [@ EXCEPT ![NomKey(x)] = Clamp(ff_value(f, inputs, ""))]]

\* lines 288-290: the three print statements
Prints(syst, shift, value, inputs) ==
  <<[name |-> syst \o shift, value |-> value, inputs |-> inputs]>>

\* lines 281-291
RECURSIVE Systematics(_, _, _, _, _)
\* a systematic value outside the range also zeroes the nominal value of the leg
RECURSIVE Systematics_ZeroesNominal(_, _, _, _, _)
Systematics_ZeroesNominal(f, inputs, x, pairs, st) ==
  IF pairs = <<>> THEN st
  ELSE LET syst == Head(pairs)[1]
           shift == Head(pairs)[2]
           value == ff_value(f, inputs, ShiftName(syst, shift))
       IN  Systematics_ZeroesNominal(f, inputs, x, Tail(pairs),
             [st EXCEPT !.buffer = [@ EXCEPT ![SystKey(syst, shift, x)] = Clamp(value),
                                             ![NomKey(x)] = IF InRange(value) THEN @ ELSE Num(0)],
                        !.printed = IF InRange(value) THEN @
                                    ELSE @ \o Prints(syst, shift, value, inputs)])

Systematics(f, inputs, x, pairs, st) ==
  IF pairs = <<>> THEN st
  ELSE LET syst == Head(pairs)[1]
           shift == Head(pairs)[2]
           value == ff_value(f, inputs, ShiftName(syst, shift))
       IN  Systematics(f, inputs, x, Tail(pairs),
             [st EXCEPT !.buffer = [@ EXCEPT ![SystKey(syst, shift, x)] = Clamp(value)],
                        !.printed = IF InRange(value) THEN @
                                    ELSE @ \o Prints(syst, shift, value, inputs)])

\* lines 253-291: one pass of the loop over the legs
ProcessLeg(frs, f, channel, event, x, st) ==
  LET pos == ListIndex(Len(categories[channel]),
                       CategoryIndex(channel, x, event.max_index))
  IN  IF event.missing = "max_index" THEN [st EXCEPT !.error = "AttributeError"]
      ELSE IF pos = 0 THEN [st EXCEPT !.error = "IndexError"]
      ELSE IF event.missing # "" THEN [st EXCEPT !.error = "AttributeError"]
      ELSE LET category == categories[channel][pos]
               cat_fractions == frs[channel][category]
               bin_index == FindBin(cat_fractions["data"], event.expr)
               inputs == Inputs(channel, event, x, cat_fractions, bin_index)
               used == [st EXCEPT !.evals = Append(@, [entry |-> st.entry, x |-> x,
                                                        category |-> category,
                                                        bin_index |-> bin_index,
                                                        inputs |-> inputs])]
           IN  Systematics(f, inputs, x, Pairs[channel],
                           Nominal(f, inputs, x, used))

\* lines 252-291: the loop over the legs; an error ends it
RECURSIVE LegLoop(_, _, _, _, _, _)
LegLoop(frs, f, channel, event, legs, st) ==
  IF legs = <<>> \/ st.error # "" THEN st
  ELSE LegLoop(frs, f, channel, event, Tail(legs),
               ProcessLeg(frs, f, channel, event, Head(legs), st))

\* the fill moved into the loop over the legs
RECURSIVE LegLoop_Fill(_, _, _, _, _, _)
LegLoop_Fill(frs, f, channel, event, legs, st) ==
  IF legs = <<>> \/ st.error # "" THEN st
  ELSE LET after == ProcessLeg(frs, f, channel, event, Head(legs), st)
       IN  LegLoop_Fill(frs, f, channel, event, Tail(legs),
             IF after.error # "" THEN after
             ELSE [after EXCEPT !.tree = Fill(@, Book(channel).branches, after.buffer)])

EventBody_FillPerLeg(frs, f, channel, event, st) ==
  LegLoop_Fill(frs, f, channel, event, suffix[channel], st)

EventBody_FillOnError(frs, f, channel, event, st) ==
  LET after == LegLoop(frs, f, channel, event, suffix[channel], st)
  IN  [after EXCEPT !.tree = Fill(@, Book(channel).branches, after.buffer)]

FindBinEffect_Extends(h, value) ==
  IF value < 0 \/ value >= GetNbinsX(h) THEN Reset(h) ELSE h

\* line 258: what TAxis.FindBin does to the histogram it is called on.  The
\* templates have fixed binning (the axis cannot be extended), so a value
\* outside the axis range leaves the histogram as it is.
FindBinEffect(h, value) == h

\* lines 254-276: the fractions after the lookups of one event: FindBin on the
\* data histogram of every category a leg resolved; GetBinContent only reads
LookupEffects(frs, channel, event, used) ==
  [frs EXCEPT ![channel] =
     [category \in DOMAIN @ |->
        IF \E k \in DOMAIN used : used[k].category = category
        THEN [@[category] EXCEPT !["data"] = FindBinEffect(@, event.expr)]
        ELSE @[category]]]

\* lines 251-292: the body of the event loop, the fill included
EventBody(frs, f, channel, event, st) ==
  LET after == LegLoop(frs, f, channel, event, suffix[channel], st)
  IN  IF after.error # "" THEN after
      ELSE [after EXCEPT !.tree = Fill(@, Book(channel).branches, after.buffer)]

(***************************************************************************)
(* One task: apply_fake_factors([args, datafile, fractions, categories]).  *)
(***************************************************************************)
Channel == DetermineChannel(datafile)

\* lines 207-213: open the input file and the friend file, get the trees
OpenInputs ==
  /\ wpc = "start"
  /\ handles' = handles \cup {"input_file", "input_friend_file"}
  /\ wpc' = "opened"
  /\ UNCHANGED mvars
  /\ UNCHANGED <<fvars, datafile, input_tree, ff, entry, output_buffer, output_tree,
                 written, printed, evals, out_dirs, out_files>>

\* line 214: input_tree.AddFriend(input_friend)
AddFriend ==
  /\ wpc = "opened"
  /\ wpc' = "joined"
  /\ UNCHANGED mvars
  /\ UNCHANGED <<fvars, datafile, input_tree, ff, entry, output_buffer, output_tree,
                 written, printed, evals, handles, out_dirs, out_files>>

\* lines 216-219: load the fake factor function
LoadFakeFactors ==
  /\ wpc = "joined"
  /\ handles' = handles \cup {"ff_file"}
  /\ wpc' = "loaded"
  /\ UNCHANGED mvars
  /\ UNCHANGED <<fvars, datafile, input_tree, ff, entry, output_buffer, output_tree,
                 written, printed, evals, out_dirs, out_files>>

\* a mkdir that accepts an existing directory
MkdirRaises_Never(dir, dirs) == FALSE

\* line 224: os.mkdir raises OSError when the directory exists
MkdirRaises(dir, dirs) == dir \in dirs

\* lines 221-248: create the subdirectory, the output file, the tree, the
\* buffers and the branches
PrepareOutput ==
  /\ wpc = "loaded"
  /\ ~MkdirRaises(Dirname(datafile), out_dirs)
  /\ out_dirs' = out_dirs \cup {Dirname(datafile)}
  /\ out_files' = out_files \cup {datafile}
  /\ handles' = handles \cup {"output_file"}
  /\ output_buffer' = Book(Channel).buffer
  /\ output_tree' = <<>>
  /\ wpc' = "loop"
  /\ UNCHANGED mvars
  /\ UNCHANGED <<fvars, datafile, input_tree, ff, entry, written, printed, evals>>

\* line 224: os.mkdir raises when the subdirectory exists
PrepareOutputFails ==
  /\ wpc = "loaded"
  /\ MkdirRaises(Dirname(datafile), out_dirs)
  /\ wpc' = "failed"
  /\ UNCHANGED mvars
  /\ UNCHANGED <<fvars, datafile, input_tree, ff, entry, output_buffer, output_tree,
                 written, printed, evals, handles, out_dirs, out_files>>

\* the state the loop body works on
LoopState ==
  [entry |-> entry + 1, buffer |-> output_buffer, tree |-> output_tree,
   printed |-> printed, evals |-> evals, error |-> ""]

\* lines 251-292: the loop takes the next event and fills a row
ProcessEvent ==
  /\ wpc = "loop"
  /\ entry < Len(input_tree)
  /\ LET st == EventBody(fractions, ff, Channel, input_tree[entry + 1], LoopState)
     IN  /\ st.error = ""
         /\ output_buffer' = st.buffer
         /\ output_tree' = st.tree
         /\ printed' = st.printed
         /\ evals' = st.evals
         /\ fractions' = LookupEffects(fractions, Channel, input_tree[entry + 1],
                                       SubSeq(st.evals, Len(evals) + 1, Len(st.evals)))
  /\ entry' = entry + 1
  /\ UNCHANGED mvars
  /\ UNCHANGED <<hist_file, key_order, categories_arg, frac_log, stages, pc>>
  /\ UNCHANGED <<datafile, input_tree, ff, wpc, written, handles, out_dirs, out_files>>

\* lines 251-292: the loop takes the next event and the body raises
ProcessEventFails ==
  /\ wpc = "loop"
  /\ entry < Len(input_tree)
  /\ LET st == EventBody(fractions, ff, Channel, input_tree[entry + 1], LoopState)
     IN  /\ st.error # ""
         /\ output_buffer' = st.buffer
         /\ output_tree' = st.tree
         /\ printed' = st.printed
         /\ evals' = st.evals
         /\ fractions' = LookupEffects(fractions, Channel, input_tree[entry + 1],
                                       SubSeq(st.evals, Len(evals) + 1, Len(st.evals)))
  /\ entry' = entry + 1
  /\ wpc' = "failed"
  /\ UNCHANGED mvars
  /\ UNCHANGED <<hist_file, key_order, categories_arg, frac_log, stages, pc>>
  /\ UNCHANGED <<datafile, input_tree, ff, written, handles, out_dirs, out_files>>

LoopDone_Early == TRUE

\* line 251: the for loop has taken every event of input_tree
LoopDone == entry = Len(input_tree)

\* lines 294-297: output_tree.Write() after the last event
WriteTree ==
  /\ wpc = "loop"
  /\ LoopDone
  /\ written' = TRUE
  /\ wpc' = "written"
  /\ UNCHANGED mvars
  /\ UNCHANGED <<fvars, datafile, input_tree, ff, entry, output_buffer, output_tree,
                 printed, evals, handles, out_dirs, out_files>>

\* lines 299-303: ff.Delete(), ff_file.Close(), input_friend_file.Close(), input_file.Close()
CleanUp ==
  /\ wpc = "written"
  /\ handles' = handles \ {"ff_file", "input_friend_file", "input_file"}
  /\ wpc' = "closed"
  /\ UNCHANGED mvars
  /\ UNCHANGED <<fvars, datafile, input_tree, ff, entry, output_buffer, output_tree,
                 written, printed, evals, out_dirs, out_files>>

(***************************************************************************)
(* The inputs a check of one task draws.                                   *)
(***************************************************************************)
\* Number of events of the input table.
MaxEvents == 2

\* the values of the <channel>_max_index field
IndexValues == {0 - 1, 1, 9}

\* the values of the category-defining observable
ExprValues == {0 - 1, 0, NbinsX}

\* the events of a table that holds every field the loop reads
FullEvents ==
  {[pt_1 |-> 40, pt_2 |-> 30, decayMode_1 |-> 1, decayMode_2 |-> 10, njets |-> 1,
    m_vis |-> 90, mt_1 |-> 20, iso_1 |-> 0, max_index |-> i, expr |-> v, missing |-> ""] :
     i \in IndexValues, v \in ExprValues}

\* an event of a table that lacks the field named by missing: getattr raises
LackingEvents ==
  {[pt_1 |-> 40, pt_2 |-> 30, decayMode_1 |-> 1, decayMode_2 |-> 10, njets |-> 1,
    m_vis |-> 90, mt_1 |-> 20, iso_1 |-> 0, max_index |-> 1, expr |-> 0, missing |-> m] :
     m \in {"njets"}}

EventSet == FullEvents \cup LackingEvents

Trees == UNION {[1..n -> EventSet] : n \in 0..MaxEvents}

TaskStore == MakeStore(categories, DataInner, "VVJ", McPeak, McOnes)
TaskOrder == <<"data", "W", "TT", "QCD", "DY", "real">>
TaskFractions == determine_fractions(TaskStore, TaskOrder, categories)

DataFiles == {PathOf(SingleElectronRun), PathOf(SingleMuonRun), PathOf(TauRun)}

\* the task gets the fractions; the template file was closed (line 164)
InitApply ==
  /\ hist_file = <<>>
  /\ key_order = TaskOrder
  /\ categories_arg = categories
  /\ fractions = TaskFractions.fractions
  /\ frac_log = <<>>
  /\ stages = NoStages
  /\ pc = "map"
  /\ datafile \in DataFiles
  /\ input_tree \in Trees
  /\ ff \in FFSet
  /\ wpc = "start"
  /\ entry = 0
  /\ output_buffer = <<>>
  /\ output_tree = <<>>
  /\ written = FALSE
  /\ printed = <<>>
  /\ evals = <<>>
  /\ handles = {}
  /\ \/ out_dirs = {} /\ out_files = {}
     \/ out_dirs = {Dirname(datafile)} /\ out_files \in {{}, {datafile}}
  /\ MainIdle

NextApply ==
  \/ OpenInputs
  \/ AddFriend
  \/ LoadFakeFactors
  \/ PrepareOutput
  \/ PrepareOutputFails
  \/ ProcessEvent
  \/ ProcessEventFails
  \/ WriteTree
  \/ CleanUp

SpecApply == InitApply /\ [][NextApply]_vars

(***************************************************************************)
(* Properties of one task.                                                 *)
(***************************************************************************)
Within(value) == ~value.nan /\ 0 <= value.v /\ value.v <= 999

\* the evaluations whose row was filled
FilledEvals == {i \in DOMAIN evals : evals[i].entry \in DOMAIN output_tree}

\* the names the evaluator is called with for one leg: none, and every shift
\* name of the channel, each with the branch its value is written to
Written(x) ==
  {<<"", NomBranch(x)>>}
    \cup {<<ShiftName(pr[1], pr[2]), SystBranch(x, pr[1], pr[2])>> : pr \in Range(Pairs[Channel])}

\* C4: every value written to an output row (nominal and every systematic
\* up/down value of every relevant leg of every event) lies in [0, 999],
\* and is exactly 0 whenever the raw evaluator output is below 0, above 999
\* or not a number.
C4_Clamped ==
  /\ \A r \in DOMAIN output_tree : \A br \in DOMAIN output_tree[r] :
       Within(output_tree[r][br])
  /\ \A i \in FilledEvals : \A w \in Written(evals[i].x) :
       ~Within(ff_value(ff, evals[i].inputs, w[1]))
         => output_tree[evals[i].entry][w[2]] = Num(0)

C4_Witness ==
  /\ wpc = "closed"
  /\ \E i \in FilledEvals :
       /\ ff_value(ff, evals[i].inputs, "") = NaN
       /\ output_tree[evals[i].entry][NomBranch(evals[i].x)] = Num(0)
       /\ \E w \in Written(evals[i].x) :
            /\ ff_value(ff, evals[i].inputs, w[1]) = Num(1500)
            /\ output_tree[evals[i].entry][w[2]] = Num(0)
       /\ \E w \in Written(evals[i].x) :
            /\ ff_value(ff, evals[i].inputs, w[1]) = Num(0 - 1)
            /\ output_tree[evals[i].entry][w[2]] = Num(0)

\* C5: whenever an evaluation (the nominal one or a systematic one) returns
\* a raw value outside [0, 999], 0 is written and an entry is emitted that
\* holds the feature vector of that evaluation (for a systematic variant
\* also its name and the raw value).
C5_Logged ==
  \A i \in FilledEvals :
    /\ ~Within(ff_value(ff, evals[i].inputs, ""))
         => /\ output_tree[evals[i].entry][NomBranch(evals[i].x)] = Num(0)
            /\ \E p \in DOMAIN printed : printed[p].inputs = evals[i].inputs
    /\ \A pr \in Range(Pairs[Channel]) :
         LET raw == ff_value(ff, evals[i].inputs, ShiftName(pr[1], pr[2])) IN
         ~Within(raw)
           => /\ output_tree[evals[i].entry][SystBranch(evals[i].x, pr[1], pr[2])] = Num(0)
              /\ \E p \in DOMAIN printed :
                   /\ printed[p].name = pr[1] \o pr[2]
                   /\ printed[p].value = raw
                   /\ printed[p].inputs = evals[i].inputs

\* the feature vector of leg x of an event, from the event alone
InputsOf(event, x) ==
  LET category == categories[Channel][ListIndex(Len(categories[Channel]),
                                                CategoryIndex(Channel, x, event.max_index))]
      cat_fractions == fractions[Channel][category]
  IN  Inputs(Channel, event, x, cat_fractions, FindBin(cat_fractions["data"], event.expr))

\* C6: a file processed to completion has as many output rows as input
\* events, and row i holds, for every leg of the channel, the values
\* computed from input event i: one row per event, in input order.
C6_RowPerEvent ==
  /\ wpc = "loop" => Len(output_tree) = entry
  /\ wpc \in {"written", "closed"} =>
       /\ Len(output_tree) = Len(input_tree)
       /\ \A i \in DOMAIN output_tree : \A x \in Range(suffix[Channel]) :
            \A w \in Written(x) :
              LET raw == ff_value(ff, InputsOf(input_tree[i], x), w[1]) IN
              output_tree[i][w[2]] = IF Within(raw) THEN raw ELSE Num(0)

C6_Witness ==
  /\ wpc = "closed"
  /\ Channel = "tt"
  /\ Len(input_tree) >= 2
  /\ Len(output_tree) = Len(input_tree)
  /\ output_tree[1] # output_tree[2]

\* C7: in a tt file, the category resolved for leg 2 of any event, whatever
\* its tt_max_index, is one of the second half of the tt category list.
C7_LegTwoSecondHalf ==
  \A i \in DOMAIN evals :
    (Channel = "tt" /\ evals[i].x = 2) =>
      \E k \in (Len(categories["tt"]) \div 2 + 1)..Len(categories["tt"]) :
        evals[i].category = categories["tt"][k]

(***************************************************************************)
(* main (lines 306-381): the configuration, the fractions, the scan of the *)
(* input directory, the output directory and the pool.                     *)
(***************************************************************************)
\* args.era
era == "2016"

SinglePhotonRun == <<"Single", "Photon", "_", "Run", "2016", "B">>
TauRunOther == <<"Tau", "_", "Run", "2017", "B">>
MuonEGRun == <<"Muon", "EG", "_", "Run", "2016", "B">>
TauSingleMuonRun == <<"Tau", "_", "Single", "Muon", "_", "Run", "2016", "B">>
EntryNames ==
  {SingleElectronRun, SingleMuonRun, TauRun, SinglePhotonRun, TauRunOther, MuonEGRun,
   TauSingleMuonRun}

MaxEntries == 2
MaxThreads == 2

\* the era is not looked at
Candidate_AnyEra(e) == In(<<"Single">>, e) \/ In(<<"Tau">>, e)

\* lines 326-327: the entries main takes for data files
Candidate(e) ==
  In(<<"Run", era>>, e) /\ (In(<<"Single">>, e) \/ In(<<"Tau">>, e))

\* lines 336-357: the friend directory main looks into, "" in the else branch
FriendDirectory(e) ==
  IF In(<<"Single", "Electron">>, e) THEN "et"
  ELSE IF In(<<"Single", "Muon">>, e) THEN "mt"
  ELSE IF In(<<"Tau">>, e) THEN "tt"
  ELSE ""

\* lines 331-335 and 357-360 alone
Validate_NoFriend(e, primary, friend) ==
  IF e \notin primary THEN "directory"
  ELSE IF FriendDirectory(e) = "" THEN "naming"
  ELSE ""

\* lines 331-360: "" when the entry passes, else the check that raises.  A friend
\* directory option left at None makes os.path.join raise at the same place.
Validate(e, primary, friend) ==
  IF e \notin primary THEN "directory"
  ELSE IF FriendDirectory(e) = "" THEN "naming"
  ELSE IF e \notin friend[FriendDirectory(e)] THEN FriendDirectory(e) \o "_friend"
  ELSE ""

OutputCheck_NoRaise(root) == "output_ready"

\* lines 365-371: raise when the output directory exists
OutputCheck(root) == IF root # "absent" THEN "aborted" ELSE "output_ready"

\* the listings os.listdir can yield: distinct entries in any order
Listings ==
  {l \in UNION {[1..n -> EntryNames] : n \in 0..MaxEntries} :
     \A i, j \in DOMAIN l : l[i] = l[j] => i = j}

\* each friend directory holds a file for every entry or for none
FriendLayouts(entries) == [Channels -> {{}, entries}]

\* the store without the template under key
Without(file, key) == [k \in DOMAIN file \ {key} |-> file[k]]

\* the template files main can find: complete; lacking the template of a
\* process named QCD, of a constituent process, or of data_obs; not openable
MainStores ==
  {TaskStore,
   Without(TaskStore, <<"mt", "ggh", "QCD">>),
   Without(TaskStore, <<"tt", "tt2_misc", "VVT">>),
   Without(TaskStore, <<"et", "qqh", "data_obs">>),
   <<>>}

InitMain ==
  /\ hist_file \in MainStores
  /\ key_order = TaskOrder
  /\ categories_arg = categories
  /\ fractions = NoFractions
  /\ frac_log = <<>>
  /\ stages = NoStages
  /\ pc = "main"
  /\ WorkerIdle
  /\ config_keys \in BOOLEAN
  /\ num_threads \in 1..MaxThreads
  /\ listing = <<>>
  /\ primary_files = {}
  /\ friend_files = [ch \in Channels |-> {}]
  /\ out_root = "absent"
  /\ scan = 0
  /\ datafiles = <<>>
  /\ tasks = <<>>
  /\ error = ""

\* lines 307-311
LoadConfig ==
  /\ pc = "main"
  /\ IF config_keys
     THEN pc' = "start" /\ error' = error
     ELSE pc' = "aborted" /\ error' = "config"
  /\ UNCHANGED <<hist_file, key_order, categories_arg, fractions, frac_log, stages>>
  /\ UNCHANGED wvars
  /\ UNCHANGED <<config_keys, listing, primary_files, friend_files, out_root, scan,
                 datafiles, num_threads, tasks>>

\* line 325: os.listdir; the file system main goes on to read is fixed here
ListDirectory ==
  /\ pc = "fractions_done"
  /\ listing' \in Listings
  /\ primary_files' \in SUBSET Range(listing')
  /\ friend_files' \in FriendLayouts(Range(listing'))
  /\ \/ out_root' = "absent" /\ out_dirs' = {} /\ out_files' = {}
     \/ out_root' = "preexisting" /\ out_dirs' = {} /\ out_files' = {}
     \/ out_root' = "preexisting" /\ out_dirs' = {TauRun} /\ out_files' = {PathOf(TauRun)}
  /\ pc' = "scan"
  /\ UNCHANGED <<hist_file, key_order, categories_arg, fractions, frac_log, stages>>
  /\ UNCHANGED <<datafile, input_tree, ff, wpc, entry, output_buffer, output_tree, written,
                 printed, evals, handles>>
  /\ UNCHANGED <<config_keys, scan, datafiles, num_threads, tasks, error>>

\* what main leaves alone while it scans and dispatches
MainFrame ==
  /\ UNCHANGED <<hist_file, key_order, categories_arg, fractions, frac_log, stages>>
  /\ UNCHANGED <<datafile, input_tree, ff, wpc, entry, output_buffer, output_tree, written,
                 printed, evals, handles>>
  /\ UNCHANGED <<config_keys, listing, primary_files, friend_files, num_threads>>

\* lines 325-327: an entry that is no candidate is passed over
ScanSkip ==
  /\ pc = "scan"
  /\ scan < Len(listing)
  /\ ~Candidate(listing[scan + 1])
  /\ scan' = scan + 1
  /\ MainFrame
  /\ UNCHANGED <<pc, out_root, out_dirs, out_files, datafiles, tasks, error>>

\* lines 328-362: a candidate is checked, then appended or the run is given up
ScanCandidate ==
  /\ pc = "scan"
  /\ scan < Len(listing)
  /\ Candidate(listing[scan + 1])
  /\ LET e == listing[scan + 1]
         v == Validate(e, primary_files, friend_files)
     IN  IF v = ""
         THEN /\ datafiles' = Append(datafiles, PathOf(e))
              /\ scan' = scan + 1
              /\ UNCHANGED <<pc, error>>
         ELSE /\ pc' = "aborted"
              /\ error' = v
              /\ UNCHANGED <<datafiles, scan>>
  /\ MainFrame
  /\ UNCHANGED <<out_root, out_dirs, out_files, tasks>>

\* lines 364-372: after the loop, os.path.exists and os.mkdir
CheckOutput ==
  /\ pc = "scan"
  /\ scan = Len(listing)
  /\ pc' = OutputCheck(out_root)
  /\ error' = IF pc' = "aborted" THEN "output_exists" ELSE error
  /\ out_root' = IF out_root = "absent" THEN "created" ELSE out_root
  /\ MainFrame
  /\ UNCHANGED <<out_dirs, out_files, scan, datafiles, tasks>>

\* lines 377-378: [[args, datafile, fractions, categories] for datafile in datafiles]
TaskList(files) ==
  [i \in DOMAIN files |->
     [datafile |-> files[i], state |-> "queued", cause |-> "", channel |-> ""]]

\* lines 376-378: the pool takes one task per collected path
MapDispatch ==
  /\ pc = "output_ready"
  /\ tasks' = TaskList(datafiles)
  /\ pc' = "map"
  /\ MainFrame
  /\ UNCHANGED <<out_root, out_dirs, out_files, scan, datafiles, error>>

\* lines 376-378: the worker processes take and run tasks while main waits
\* in pool.map, and go on after pool.map has raised: main calls neither
\* terminate nor close on that path
PoolAlive == pc = "map" \/ (pc = "aborted" /\ error = "task")

\* a map that collects the results and overlooks a task that raised
MapResult_IgnoresErrors(ts) ==
  IF \A i \in DOMAIN ts : ts[i].state \in {"done", "failed"} THEN "return" ELSE "wait"

\* line 377: pool.map is map_async(...).get(): it raises what a task raised,
\* returns when every task has returned, and waits otherwise
MapResult(ts) ==
  IF \E i \in DOMAIN ts : ts[i].state = "failed" THEN "raise"
  ELSE IF \A i \in DOMAIN ts : ts[i].state = "done" THEN "return"
  ELSE "wait"

\* the tasks a worker process is busy with
Running == {i \in DOMAIN tasks : tasks[i].state \in {"running", "prepared"}}

FreeWorker_Unbounded == TRUE

\* line 376: Pool(processes=args.num_threads), one task per process at a time
FreeWorker == Cardinality(Running) < num_threads

\* a free worker process takes a task and runs lines 168-219
TaskStart(i) ==
  /\ PoolAlive
  /\ tasks[i].state = "queued"
  /\ FreeWorker
  /\ tasks' = [tasks EXCEPT ![i].state = "running",
                            ![i].channel = DetermineChannel(tasks[i].datafile)]
  /\ MainFrame
  /\ UNCHANGED <<pc, out_root, out_dirs, out_files, scan, datafiles, error>>

\* lines 221-229: os.mkdir raises when the directory exists, else the output
\* file is created
TaskPrepare(i) ==
  /\ PoolAlive
  /\ tasks[i].state = "running"
  /\ LET d == tasks[i].datafile IN
     IF MkdirRaises(Dirname(d), out_dirs)
     THEN /\ tasks' = [tasks EXCEPT ![i].state = "failed", ![i].cause = "mkdir"]
          /\ UNCHANGED <<out_dirs, out_files>>
     ELSE /\ tasks' = [tasks EXCEPT ![i].state = "prepared"]
          /\ out_dirs' = out_dirs \cup {Dirname(d)}
          /\ out_files' = out_files \cup {d}
  /\ MainFrame
  /\ UNCHANGED <<pc, out_root, scan, datafiles, error>>

\* lines 231-303: the loop, the write and the clean-up went through
TaskDone(i) ==
  /\ PoolAlive
  /\ tasks[i].state = "prepared"
  /\ tasks' = [tasks EXCEPT ![i].state = "done"]
  /\ MainFrame
  /\ UNCHANGED <<pc, out_root, out_dirs, out_files, scan, datafiles, error>>

\* apply_fake_factors raises on a file it cannot read or on an event
TaskFail(i) ==
  /\ PoolAlive
  /\ tasks[i].state \in {"running", "prepared"}
  /\ tasks' = [tasks EXCEPT ![i].state = "failed", ![i].cause = "error"]
  /\ MainFrame
  /\ UNCHANGED <<pc, out_root, out_dirs, out_files, scan, datafiles, error>>

\* line 377: pool.map returns when every task has returned
MapReturn ==
  /\ pc = "map"
  /\ MapResult(tasks) = "return"
  /\ pc' = "mapped"
  /\ MainFrame
  /\ UNCHANGED <<out_root, out_dirs, out_files, scan, datafiles, tasks, error>>

\* line 377: pool.map raises what a task raised
MapRaise ==
  /\ pc = "map"
  /\ MapResult(tasks) = "raise"
  /\ pc' = "aborted"
  /\ error' = "task"
  /\ MainFrame
  /\ UNCHANGED <<out_root, out_dirs, out_files, scan, datafiles, tasks>>

\* lines 379-381
CloseJoin ==
  /\ pc = "mapped"
  /\ pc' = "done"
  /\ MainFrame
  /\ UNCHANGED <<out_root, out_dirs, out_files, scan, datafiles, tasks, error>>

NextMain ==
  \/ LoadConfig
  \/ DetermineFractions
  \/ ListDirectory
  \/ ScanSkip
  \/ ScanCandidate
  \/ CheckOutput
  \/ MapDispatch
  \/ \E i \in DOMAIN tasks : TaskStart(i)
  \/ \E i \in DOMAIN tasks : TaskPrepare(i)
  \/ \E i \in DOMAIN tasks : TaskDone(i)
  \/ \E i \in DOMAIN tasks : TaskFail(i)
  \/ MapReturn
  \/ MapRaise
  \/ CloseJoin

SpecMain == InitMain /\ [][NextMain]_vars

\* a candidate one of whose expected files does not exist
MissingFile(e) ==
  \/ e \notin primary_files
  \/ In(<<"Single", "Electron">>, e) /\ e \notin friend_files["et"]
  \/ In(<<"Single", "Muon">>, e) /\ ~In(<<"Single", "Electron">>, e) /\ e \notin friend_files["mt"]
  \/ /\ In(<<"Tau">>, e) /\ ~In(<<"Single", "Electron">>, e) /\ ~In(<<"Single", "Muon">>, e)
     /\ e \notin friend_files["tt"]

Dispatching == {"output_ready", "map", "mapped", "done"}

\* C9: when a candidate of the listing lacks its primary file or the friend file
\* of its channel, the output directory is never created and no task is ever
\* handed to the pool; the scan never passes such a candidate; and tasks exist
\* only after the whole listing has been validated.
C9_MissingFileAborts ==
  /\ (\E i \in DOMAIN listing : Candidate(listing[i]) /\ MissingFile(listing[i])) =>
       (out_root # "created" /\ tasks = <<>> /\ pc \notin Dispatching)
  /\ \A i \in 1..scan : Candidate(listing[i]) => ~MissingFile(listing[i])
  /\ (tasks # <<>> \/ pc \in Dispatching) =>
       (scan = Len(listing) /\ Len(datafiles) = Cardinality({i \in DOMAIN listing : Candidate(listing[i])}))

C9_Witness ==
  /\ pc = "aborted"
  /\ error = "tt_friend"
  /\ scan = 1
  /\ datafiles # <<>>
  /\ out_root = "absent"
  /\ tasks = <<>>

\* C10: a run that finds the output directory in place raises, hands no task to
\* the pool and leaves the directory as it found it; tasks exist only once main
\* has created the directory.
C10_ExistingOutputAborts ==
  /\ [](out_root = "preexisting" => (tasks = <<>> /\ pc \notin Dispatching))
  /\ []((tasks # <<>> \/ pc \in Dispatching) => out_root = "created")
  /\ []((pc = "aborted" /\ error = "output_exists") => out_root = "preexisting")
  /\ [][out_root = "preexisting" => UNCHANGED <<out_root, out_dirs, out_files>>]_vars

C10_Witness ==
  /\ pc = "aborted"
  /\ error = "output_exists"
  /\ out_root = "preexisting"
  /\ out_files # {}
  /\ datafiles # <<>>
  /\ tasks = <<>>

\* the candidates of the listing, by position
Candidates == {k \in DOMAIN listing : Candidate(listing[k])}

\* C11: once main has handed the work to the pool, every candidate of the
\* listing has exactly one task and every task belongs to a candidate; at no
\* time are more than num_threads tasks in a worker; and main gets past
\* pool.map and to its end only when every task has finished.
C11_OneTaskPerFile ==
  /\ pc \in {"map", "mapped", "done"} =>
       /\ \A k \in Candidates :
            Cardinality({i \in DOMAIN tasks :
                           tasks[i].datafile = listing[k] \o <<"/">> \o listing[k] \o <<".root">>}) = 1
       /\ Len(tasks) = Cardinality(Candidates)
  /\ Cardinality({i \in DOMAIN tasks : tasks[i].state \in {"running", "prepared"}}) <= num_threads
  /\ pc \in {"mapped", "done"} => \A i \in DOMAIN tasks : tasks[i].state = "done"

C11_Witness ==
  /\ pc = "done"
  /\ Len(tasks) = 2
  /\ num_threads = 1
  /\ Len(listing) = 2

\* C14: any two tasks of a run have different paths and different output
\* subdirectories, so they read different input and friend files and write
\* different output files, and no task finds its subdirectory made by another.
C14_DisjointFiles ==
  /\ \A i, j \in DOMAIN tasks :
       i # j => /\ tasks[i].datafile # tasks[j].datafile
                /\ Dirname(tasks[i].datafile) # Dirname(tasks[j].datafile)
  /\ \A i \in DOMAIN tasks : tasks[i].cause # "mkdir"
  /\ \A i \in DOMAIN tasks :
       tasks[i].state \in {"prepared", "done"} =>
         (Dirname(tasks[i].datafile) \in out_dirs /\ tasks[i].datafile \in out_files)

C14_Witness ==
  /\ pc = "map"
  /\ Len(tasks) = 2
  /\ \A i \in DOMAIN tasks : tasks[i].state = "prepared"
  /\ Cardinality(out_dirs) = 2
  /\ Cardinality(out_files) = 2

\* the templates the fractions are made of: data_obs and the constituents of
\* the groups other than QCD, for every category main passes
NeededKeys ==
  UNION {{<<ch, categories[ch][k], proc>> :
            k \in DOMAIN categories[ch],
            proc \in {"data_obs", "W", "VVJ", "ZJ", "TTJ", "ZTT", "ZL", "TTT", "VVT"}} :
         ch \in {"et", "mt", "tt"}}

SetupFails ==
  \/ ~config_keys
  \/ \E key \in NeededKeys : key \notin DOMAIN hist_file

\* C12: when the configuration key is absent, or the template file lacks the
\* histogram of data_obs or of a constituent process of some category (a file
\* that cannot be opened lacks them all), the run gets no further than the
\* set-up: no fractions are returned, the directory is not listed, the output
\* directory is not created and no task exists.
C12_SetupFailureAborts ==
  SetupFails =>
    /\ pc \in {"main", "start", "aborted"}
    /\ fractions = NoFractions
    /\ listing = <<>>
    /\ out_root # "created"
    /\ tasks = <<>>
    /\ (pc = "aborted" => error \in {"config", "histogram"})

C12_Witness ==
  /\ pc = "aborted"
  /\ error = "histogram"
  /\ config_keys
  /\ <<"tt", "tt2_misc", "VVT">> \notin DOMAIN hist_file
  /\ <<"tt", "tt2_misc", "data_obs">> \in DOMAIN hist_file

C15_MissingFieldEndsTask ==
  /\ [](\A k \in 1..entry :
          input_tree[k].missing # "" =>
            /\ k = entry
            /\ wpc = "failed"
            /\ Len(output_tree) = entry - 1
            /\ ~written
            /\ Dirname(datafile) \in out_dirs
            /\ datafile \in out_files
            /\ {"input_file", "input_friend_file", "ff_file", "output_file"} \subseteq handles)
  /\ [][wpc # "failed"]_vars

C15_Witness ==
  /\ wpc = "failed"
  /\ entry = 2
  /\ input_tree[2].missing = "njets"
  /\ Len(output_tree) = 1
  /\ ~written

\* the legs a channel evaluates
LegsOf(channel) == IF channel = "tt" THEN {"1", "2"} ELSE {"2"}

\* the branch names a row of a channel has to hold
ExpectedBranches(channel) ==
  {"ff" \o leg \o "_nom" : leg \in LegsOf(channel)}
  \cup {"ff" \o leg \o "_" \o unc_shifts[channel][k] \o "_" \o dir :
          leg \in LegsOf(channel), k \in DOMAIN unc_shifts[channel], dir \in {"up", "down"}}

\* C16: every row of the output table holds exactly the branches ff<leg>_nom
\* and ff<leg>_<systematic>_<up|down> for the legs of the channel (2 for et and
\* mt, 1 and 2 for tt) and the systematic sources of the channel, 15 for et and
\* mt and 10 for tt: 31 values for et and mt, 42 for tt.
C16_RowBranches ==
  /\ Cardinality(Range(unc_shifts["et"])) = 15
  /\ Cardinality(Range(unc_shifts["mt"])) = 15
  /\ Cardinality(Range(unc_shifts["tt"])) = 10
  /\ \A r \in DOMAIN output_tree :
       /\ DOMAIN output_tree[r] = ExpectedBranches(Channel)
       /\ Cardinality(DOMAIN output_tree[r]) = IF Channel = "tt" THEN 42 ELSE 31

C16_Witness ==
  /\ Len(output_tree) = 2
  /\ Channel = "tt"
  /\ written

\* the order of the positions of a task
Rank(p) ==
  CASE p = "start" -> 0 [] p = "opened" -> 1 [] p = "joined" -> 2 [] p = "loaded" -> 3
    [] p = "loop" -> 4 [] p = "written" -> 5 [] p = "closed" -> 6 [] OTHER -> 7

\* C17: a task moves from opened to joined to the event loop to written to
\* closed, one position at a time and never back (or ends on an error); an
\* event is processed only after the friend was joined, the table is written
\* only after the last event, and the input handles are closed only after the
\* table was written.
C17_StrictSequence ==
  /\ [][wpc' # wpc => (wpc' = "failed" \/ Rank(wpc') = Rank(wpc) + 1)]_vars
  /\ [][entry' # entry => (wpc = "loop" /\ entry' = entry + 1)]_vars
  /\ [](entry > 0 => Rank(wpc) >= 4)
  /\ [](written => (entry = Len(input_tree) /\ Rank(wpc) \in {5, 6}))
  /\ [](Rank(wpc) \in {5, 6} => written)
  /\ []((Rank(wpc) \in 1..5 \/ (wpc = "failed" /\ entry > 0)) =>
          {"input_file", "input_friend_file"} \subseteq handles)
  /\ []({"input_file", "input_friend_file"} \cap handles = {} =>
          (wpc = "start" \/ (wpc = "closed" /\ written)))

C17_Witness ==
  /\ wpc = "closed"
  /\ written
  /\ entry = 2
  /\ "input_file" \notin handles

\* the groups of a channel that enter the QCD histogram with a minus sign
OtherGroups(channel) == DOMAIN composition[channel] \ {"data", "QCD"}

\* C18: before the division, at every bin of every category, the histogram of
\* every group but QCD is the sum of the templates of its constituent
\* processes and the QCD histogram is data minus the sum of the other non-data
\* groups, whatever the order in which the groups come and whatever a template
\* named QCD holds.
C18_SumsBeforeDivision ==
  pc = "fractions_done" =>
    AllBins(LAMBDA channel, category, b :
      LET summed == stages.summed[channel][category] IN
      /\ \A g \in DOMAIN composition[channel] \ {"QCD"} :
           summed[g][b] = GroupContent(channel, category, g, b)
      /\ summed["QCD"][b] =
           RatSub(GroupContent(channel, category, "data", b),
                  RatSum([g \in OtherGroups(channel) |-> GroupContent(channel, category, g, b)],
                         OtherGroups(channel))))

C18_Witness ==
  /\ pc = "fractions_done"
  /\ key_order[1] = "QCD"
  /\ \E channel \in DOMAIN fractions : \E category \in DOMAIN fractions[channel] :
       /\ hist_file[<<channel, category, "QCD">>][1] = RatInt(12)
       /\ stages.summed[channel][category]["QCD"][1] = RatInt(2)
       /\ stages.summed[channel][category]["real"][1] = RatInt(4)

\* C19: at every bin, underflow and overflow included, whose QCD fraction q
\* after the division is negative, the returned QCD fraction is 0, the
\* returned fraction of every other non-data group is its fraction after the
\* division divided by 1 - q, 1 - q is greater than 1, and an info record
\* naming the channel, the category and the bin index was handed to the logger.
C19_NegativeQCDCorrected ==
  pc = "fractions_done" =>
    AllBins(LAMBDA channel, category, b :
      LET divided == stages.divided[channel][category]
          q == divided["QCD"][b]
      IN  RatLt(q, RatZero) =>
            /\ fractions[channel][category]["QCD"][b] = RatZero
            /\ \A g \in OtherGroups(channel) :
                 fractions[channel][category][g][b] = RatDiv(divided[g][b], RatSub(RatOne, q))
            /\ RatLt(RatOne, RatSub(RatOne, q))
            /\ \E k \in DOMAIN frac_log :
                 /\ frac_log[k].level = "info"
                 /\ frac_log[k].channel = channel
                 /\ frac_log[k].category = category
                 /\ frac_log[k].index = b)

C19_Witness ==
  /\ pc = "fractions_done"
  /\ \E channel \in DOMAIN fractions : \E category \in DOMAIN fractions[channel] :
       /\ RatLt(stages.divided[channel][category]["QCD"][0], RatZero)
       /\ fractions[channel][category]["QCD"][0] = RatZero
       /\ \E g \in OtherGroups(channel) :
            /\ fractions[channel][category][g][0] # stages.divided[channel][category][g][0]
            /\ fractions[channel][category][g][0] # RatZero

\* C20: at every bin whose QCD fraction after the division is not negative
\* every group keeps its fraction after the division, and the data entry
\* keeps it at every bin.
C20_CorrectionFrame ==
  pc = "fractions_done" =>
    AllBins(LAMBDA channel, category, b :
      LET divided == stages.divided[channel][category] IN
      /\ fractions[channel][category]["data"][b] = divided["data"][b]
      /\ ~RatLt(divided["QCD"][b], RatZero) =>
           \A g \in DOMAIN composition[channel] :
             fractions[channel][category][g][b] = divided[g][b])

C20_Witness ==
  /\ pc = "fractions_done"
  /\ \E channel \in DOMAIN fractions : \E category \in DOMAIN fractions[channel] :
       /\ RatLt(stages.divided[channel][category]["QCD"][1], RatZero)
       /\ ~RatLt(stages.divided[channel][category]["QCD"][2], RatZero)
       /\ fractions[channel][category]["data"][1] = RatOne
       /\ \E g \in OtherGroups(channel) :
            /\ fractions[channel][category][g][2] = stages.divided[channel][category][g][2]
            /\ fractions[channel][category][g][2] # RatZero

\* the fraction of a group the lookup of an evaluation reads: the group's
\* entry of the resolved category at the bin index
FractionAt(e, group) == fractions[Channel][e.category][group][e.bin_index]

\* the nine entries, in the fixed order of the channel, of the evaluation e
ExpectedVector(e) ==
  LET event == input_tree[e.entry] IN
  IF Channel = "tt"
  THEN <<RatInt(IF e.x = 1 THEN event.pt_1 ELSE event.pt_2),
         RatInt(IF e.x = 1 THEN event.pt_2 ELSE event.pt_1),
         RatInt(IF e.x = 1 THEN event.decayMode_1 ELSE event.decayMode_2),
         RatInt(event.njets), RatInt(event.m_vis),
         FractionAt(e, "QCD"), FractionAt(e, "W"), FractionAt(e, "TT"), FractionAt(e, "DY")>>
  ELSE <<RatInt(event.pt_2), RatInt(event.decayMode_2), RatInt(event.njets),
         RatInt(event.m_vis), RatInt(event.mt_1), RatInt(event.iso_1),
         FractionAt(e, "QCD"), FractionAt(e, "W"), FractionAt(e, "TT")>>

\* C21: the feature vector of every evaluation has exactly 9 entries in the
\* fixed order of the channel (et/mt: pt_2, decayMode_2, njets, m_vis, mt_1,
\* iso_1, QCD, W, TT; tt leg x: pt_x, pt_(3-x), decayMode_x, njets, m_vis,
\* QCD, W, TT, DY), all fraction entries are read from the one resolved
\* category at the one bin, and the nominal and every systematic value of
\* that event and leg are computed from that one vector.
C21_FeatureVector ==
  /\ \A i \in DOMAIN evals :
       /\ Len(evals[i].inputs) = 9
       /\ evals[i].inputs = ExpectedVector(evals[i])
  /\ \A i \in FilledEvals : \A w \in Written(evals[i].x) :
       output_tree[evals[i].entry][w[2]] = Clamp(ff_value(ff, ExpectedVector(evals[i]), w[1]))
  /\ \A p \in DOMAIN printed : \E i \in DOMAIN evals : printed[p].inputs = ExpectedVector(evals[i])

C21_Witness ==
  /\ wpc = "closed"
  /\ Channel = "tt"
  /\ \E i \in FilledEvals :
       /\ evals[i].x = 2
       /\ evals[i].inputs[1] = RatInt(30)
       /\ evals[i].inputs[2] = RatInt(40)
       /\ evals[i].inputs[6] # evals[i].inputs[7]
       /\ \E w \in Written(2) : w[1] # "" /\ output_tree[evals[i].entry][w[2]] # Num(0)
  /\ printed # <<>>

\* the raw evaluator output of the evaluation i under the name w[1]
RawOf(i, w) == ff_value(ff, evals[i].inputs, w[1])

\* the value written for the evaluation i to the branch w[2]
WrittenOf(i, w) == output_tree[evals[i].entry][w[2]]

\* C22: each value is clamped on its own: a raw output inside [0, 999], the
\* boundaries 0 and 999 included, is written unchanged, whatever the other
\* raw outputs of the event are; a value replaced by 0 leaves the nominal
\* and every other systematic value of the same event, of the same and of
\* the other leg, as the evaluator returned them.
C22_ClampedIndependently ==
  \A i \in FilledEvals : \A w \in Written(evals[i].x) :
    /\ (~RawOf(i, w).nan /\ RawOf(i, w).v \in 0..999) => WrittenOf(i, w) = RawOf(i, w)
    /\ ~Within(RawOf(i, w)) =>
         \A j \in FilledEvals : \A u \in Written(evals[j].x) :
           (evals[j].entry = evals[i].entry /\ <<j, u>> # <<i, w>> /\ Within(RawOf(j, u)))
             => WrittenOf(j, u) = RawOf(j, u)

C22_Witness ==
  /\ wpc = "closed"
  /\ Channel = "tt"
  /\ \E i \in FilledEvals : \E j \in FilledEvals :
       /\ evals[i].entry = evals[j].entry
       /\ evals[i].x # evals[j].x
       /\ \E w \in Written(evals[i].x) :
            /\ w[1] # ""
            /\ RawOf(i, w) = Num(1000)
            /\ WrittenOf(i, w) = Num(0)
       /\ RawOf(i, <<"", NomBranch(evals[i].x)>>) = Num(999)
       /\ WrittenOf(i, <<"", NomBranch(evals[i].x)>>) = Num(999)
       /\ \E u \in Written(evals[j].x) : RawOf(j, u) = Num(0) /\ WrittenOf(j, u) = Num(0)
       /\ \E u \in Written(evals[j].x) : RawOf(j, u) = Num(500) /\ WrittenOf(j, u) = Num(500)

\* C23: on the success path, when the task has finished its clean-up and
\* returns, every file handle it opened (input file, friend file, fake
\* factor file, output file) has been released.
C23_HandlesReleased ==
  wpc = "closed" =>
    handles \cap {"input_file", "input_friend_file", "ff_file", "output_file"} = {}

\* C24: when the subdirectory of the output file exists at the step that
\* prepares the output, the task fails there: no output file is created or
\* opened for writing (an existing one stays as it is), no event is
\* processed, and the failed task takes no further step.
C24_ExistingSubdirectoryFails ==
  /\ [][(Dirname(datafile) \in out_dirs /\ "output_file" \notin handles) =>
          /\ "output_file" \notin handles'
          /\ UNCHANGED <<out_dirs, out_files, entry, output_tree, written, evals>>
          /\ wpc = "loaded" => wpc' = "failed"]_vars
  /\ []((wpc = "failed" /\ "output_file" \notin handles) =>
          /\ entry = 0
          /\ output_tree = <<>>
          /\ ~written
          /\ [](wpc = "failed" /\ "output_file" \notin handles))

C24_Witness ==
  /\ wpc = "failed"
  /\ Dirname(datafile) \in out_dirs
  /\ datafile \in out_files
  /\ "output_file" \notin handles
  /\ "ff_file" \in handles
  /\ Len(input_tree) > 0
  /\ entry = 0
  /\ output_tree = <<>>

\* the name contains "Run<era>" and contains "Single" or "Tau"
NamedForEra(e) ==
  /\ \E k \in DOMAIN e : k < Len(e) /\ e[k] = "Run" /\ e[k + 1] = "2016"
  /\ \E k \in DOMAIN e : e[k] \in {"Single", "Tau"}

\* the name contains "SingleElectron", "SingleMuon" or "Tau"
NamedForChannel(e) ==
  \/ \E k \in DOMAIN e : e[k] = "Tau"
  \/ \E k \in DOMAIN e : k < Len(e) /\ e[k] = "Single" /\ e[k + 1] \in {"Electron", "Muon"}

\* the entries among the first n of the listing that are named for the era
RECURSIVE NamedPaths(_)
NamedPaths(n) ==
  IF n = 0 THEN <<>>
  ELSE NamedPaths(n - 1) \o
         (IF NamedForEra(listing[n])
          THEN <<listing[n] \o <<"/">> \o listing[n] \o <<".root">>>>
          ELSE <<>>)

C25_WitnessAppended ==
  /\ pc = "done"
  /\ listing = <<MuonEGRun, TauRun>>
  /\ datafiles = <<PathOf(TauRun)>>

\* C26: for every file handed to a worker, the channel the worker derives
\* from the file name is the channel whose friend directory main looked
\* into for that file, so the friend file the worker opens is the one main
\* found.
C26_SameChannel ==
  \A i \in DOMAIN tasks :
    tasks[i].channel # "" =>
      /\ tasks[i].channel = FriendDirectory(Dirname(tasks[i].datafile))
      /\ Dirname(tasks[i].datafile) \in friend_files[tasks[i].channel]

C26_Witness ==
  /\ pc = "done"
  /\ \E i \in DOMAIN tasks :
       /\ tasks[i].datafile = PathOf(TauSingleMuonRun)
       /\ tasks[i].channel = "mt"
  /\ \E i \in DOMAIN tasks :
       /\ tasks[i].datafile = PathOf(TauRun)
       /\ tasks[i].channel = "tt"

\* the position leg x of the event k of the table resolves: the index for
\* et, mt and tt leg 1, the index plus half the list length for tt leg 2
Position(k, x) ==
  input_tree[k].max_index
    + (IF Channel = "tt" /\ x = 2 THEN Len(categories["tt"]) \div 2 ELSE 0)

\* C27: the category of an evaluation is the one at the resolved position
\* p of the channel's list of n categories when 0 <= p < n and the one at
\* n + p when -n <= p < 0 (so a tt index of n/2 or more gives leg 1 a
\* category of the second half and a negative one gives leg 2 a category
\* of the first half); an event with a position of n or more ends the
\* task with an error; an event of a complete table whose positions all
\* lie in -n..n-1 is not rejected.
C27_CategoryResolution ==
  LET n == Len(categories[Channel]) IN
  /\ \A i \in DOMAIN evals :
       LET p == Position(evals[i].entry, evals[i].x) IN
       /\ 0 - n <= p /\ p < n
       /\ evals[i].category = categories[Channel][(IF p >= 0 THEN p ELSE n + p) + 1]
  /\ \A k \in 1..entry :
       /\ (\E x \in Range(suffix[Channel]) : Position(k, x) >= n)
            => (k = entry /\ wpc = "failed" /\ Len(output_tree) = entry - 1)
       /\ (input_tree[k].missing = ""
             /\ \A x \in Range(suffix[Channel]) : 0 - n <= Position(k, x) /\ Position(k, x) < n)
            => /\ k \in DOMAIN output_tree
               /\ \A x \in Range(suffix[Channel]) :
                    \E i \in DOMAIN evals : evals[i].entry = k /\ evals[i].x = x

C27_Witness ==
  /\ wpc = "failed"
  /\ Channel = "tt"
  /\ entry = 2
  /\ Len(output_tree) = 1
  /\ input_tree[1].max_index = 0 - 1
  /\ input_tree[2].max_index = 9
  /\ \E i \in DOMAIN evals :
       evals[i].entry = 1 /\ evals[i].x = 1 /\ evals[i].category = "tt2_misc"
  /\ \E i \in DOMAIN evals :
       evals[i].entry = 1 /\ evals[i].x = 2 /\ evals[i].category = "tt1_misc"
  /\ \E i \in DOMAIN evals :
       evals[i].entry = 2 /\ evals[i].x = 1 /\ evals[i].category = "tt2_misc"
  /\ ~\E i \in DOMAIN evals : evals[i].entry = 2 /\ evals[i].x = 2

\* the histograms of the task's template file after the division (line 151)
TaskDivided == Divided(TaskStore, TaskOrder, categories)

\* the fraction entries of the feature vector of the channel, by position
FractionEntries ==
  IF Channel = "tt"
  THEN {<<6, "QCD">>, <<7, "W">>, <<8, "TT">>, <<9, "DY">>}
  ELSE {<<7, "QCD">>, <<8, "W">>, <<9, "TT">>}

\* C28: the bin index of every evaluation lies in 0..NbinsX+1: 0 for a
\* value of the observable below the first edge, NbinsX+1 for a value at
\* or above the last edge, the bin that holds the value otherwise; the
\* fractions looked up at that bin are those of determine_fractions: the
\* result of the division, with QCD set to 0 and the others rescaled where
\* the divided QCD fraction was negative.
C28_BinDefined ==
  \A i \in DOMAIN evals :
    LET b == evals[i].bin_index
        value == input_tree[evals[i].entry].expr
        divided == TaskDivided[Channel][evals[i].category]
        qcd == divided["QCD"][b]
    IN  /\ b \in 0..(NbinsX + 1)
        /\ value < 0 => b = 0
        /\ value >= NbinsX => b = NbinsX + 1
        /\ (0 <= value /\ value < NbinsX) => b = value + 1
        /\ \A pg \in FractionEntries :
             evals[i].inputs[pg[1]] =
               IF ~RatLt(qcd, RatZero) THEN divided[pg[2]][b]
               ELSE IF pg[2] = "QCD" THEN RatZero
               ELSE RatDiv(divided[pg[2]][b], RatSub(RatOne, qcd))

C28_Witness ==
  /\ wpc = "closed"
  /\ \E i \in FilledEvals : evals[i].bin_index = 0 /\ input_tree[evals[i].entry].expr < 0
  /\ \E i \in FilledEvals :
       /\ evals[i].bin_index = NbinsX + 1
       /\ RatLt(TaskDivided[Channel][evals[i].category]["QCD"][NbinsX + 1], RatZero)
       /\ \E pg \in FractionEntries : pg[2] = "QCD" /\ evals[i].inputs[pg[1]] = RatZero
       /\ \E pg \in FractionEntries : pg[2] # "QCD" /\ evals[i].inputs[pg[1]] # RatZero

\* the evaluations of leg x of the event of row r
EvalsOf(r, x) == {i \in DOMAIN evals : evals[i].entry = r /\ evals[i].x = x}

\* C29: no value of an output row is carried over from an earlier event:
\* every branch of a row belongs to a leg of the channel, that leg was
\* evaluated for the event of the row before the row was appended, and the
\* value of the branch is the in-range output of the evaluator for that
\* event and leg, or 0.
C29_NothingCarriedOver ==
  \A r \in DOMAIN output_tree :
    /\ DOMAIN output_tree[r] = UNION {{w[2] : w \in Written(x)} : x \in Range(suffix[Channel])}
    /\ \A x \in Range(suffix[Channel]) :
         /\ Cardinality(EvalsOf(r, x)) = 1
         /\ \A i \in EvalsOf(r, x) : \A w \in Written(x) :
              /\ WrittenOf(i, w) \in {RawOf(i, w), Num(0)}
              /\ WrittenOf(i, w) = RawOf(i, w) \/ ~Within(RawOf(i, w))

C29_Witness ==
  /\ wpc = "closed"
  /\ Len(output_tree) = 2
  /\ \E x \in Range(suffix[Channel]) :
       /\ \E w \in Written(x) :
            /\ w[1] # ""
            /\ Within(output_tree[1][w[2]]) /\ output_tree[1][w[2]] # Num(0)
            /\ output_tree[2][w[2]] = Num(0)
            /\ \A i \in EvalsOf(2, x) : ~Within(RawOf(i, w))
       /\ \E w \in Written(x) :
            /\ w[1] = ""
            /\ Within(output_tree[1][w[2]]) /\ output_tree[1][w[2]] # Num(0)
            /\ output_tree[2][w[2]] = Num(0)
            /\ \A i \in EvalsOf(2, x) : ~Within(RawOf(i, w))

\* some dispatched task raised
SomeFailed == \E i \in DOMAIN tasks : tasks[i].state = "failed"

\* C30: main gets past pool.map, to close and join and to its end, only
\* when every dispatched task finished without error; once a task raised,
\* the one step main can take is the raise of pool.map, which it can take
\* at once and which ends main with the error: close and join are never
\* executed, a failed task is never run again, and the step that ends main
\* leaves every other task as it is.
C30_TaskErrorPropagates ==
  /\ [](pc \in {"mapped", "done"} => \A i \in DOMAIN tasks : tasks[i].state = "done")
  /\ []((pc = "map" /\ SomeFailed) => (ENABLED MapRaise /\ ~ENABLED MapReturn))
  /\ [][\A i \in DOMAIN tasks :
          tasks[i].state = "failed" => (i \in DOMAIN tasks' /\ tasks'[i] = tasks[i])]_vars
  /\ [][pc = "aborted" => pc' = "aborted"]_vars
  /\ [][(pc = "map" /\ pc' # "map") =>
          /\ tasks' = tasks
          /\ IF SomeFailed THEN pc' = "aborted" /\ error' = "task" ELSE pc' = "mapped"]_vars

C30_Witness ==
  /\ pc = "aborted"
  /\ error = "task"
  /\ Len(tasks) = 2
  /\ tasks[1].state = "failed"
  /\ tasks[1].cause = "error"
  /\ tasks[2].state = "done"
====
